---- MODULE Spec2Model ----
(***************************************************************************)
(* QueueingWaypointPlanner (pedsim_simulator, waypointplanner/             *)
(* queueingplanner.cpp) as a state machine.                                *)
(*                                                                         *)
(* The planner's fields keep their names.  The Qt connections whose        *)
(* receiver is the planner are counted per sender and signal: connect      *)
(* adds a connection, also when there is one already, disconnect removes   *)
(* all of a sender/signal/slot, and a signal runs the slot once per        *)
(* connection.  The count 2 stands for two or more.                        *)
(* WaitingQueue and Agent are collaborators whose code is not part of the  *)
(* planner's file; they are modelled at their interface.                   *)
(*                                                                         *)
(* Lengths are in tenths of a length unit, so that the planner's three     *)
(* distances (2.0, 0.4, 0.7) are the integers 20, 4 and 7, and a           *)
(* comparison of lengths is a comparison of squared lengths.               *)
(***************************************************************************)
EXTENDS Integers, Sequences, FiniteSets, TLC

\* ---------------------------------------------------------------- bounds
\* Longest queue the model lets grow (enqueueAgent is disabled beyond it).
MaxQueueLen == 2

\* ------------------------------------------------------ program constants
NoAgent == 0
NoQueue == 0
EndPositionRadius == 20
MinUpdateDistance == 4
PrivateSpaceDistance == 7

NoWaypoint == << >>

Agents == 1 .. 2
\* The agent the planner is bound to by setAgent; the others only queue and move.
OwnAgents == {1}
OtherAgents == Agents \ OwnAgents
Queues == 1 .. 2
\* Waypoints that are no WaitingQueue.
PlainWaypoints == {3}
Waypoints == Queues \cup PlainWaypoints \cup {NoQueue}
\* dynamic_cast<WaitingQueue*>(waypointIn)
AsWaitingQueue(waypointIn) ==
    IF waypointIn \in Queues THEN waypointIn ELSE NoQueue

Statuses == {"Unknown", "Approaching", "Queued", "MayPass"}
ProblematicForces == {"Social", "Random", "GroupCoherence", "GroupGaze"}

\* Outcomes of a read through the null agent pointer.
UndefinedReads == {"abort", "true", "false"}

\* ------------------------------------------------------------- geometry
OwnPositions == { <<0, 120>>, <<0, 121>> }
OtherPositions == { <<0, 50>>, <<0, 53>>, <<0, 54>> }
EndPositions == { <<0, 100>>, <<0, 80>> }
\* The end of queue 1 moves between the two; the end of queue 2 stays.
EndPositionsOf(q) == IF q = 1 THEN EndPositions ELSE { <<0, 100>> }

PositionOf(a) == IF a \in OwnAgents THEN OwnPositions ELSE OtherPositions

\* WaitingQueue::getPosition(): the queue's anchor.
QueuePosition(q) == IF q = 1 THEN <<0, 0>> ELSE <<30, 0>>
\* WaitingQueue::getDirection(), as the unit vector of the angle.
QueueDirection(q) == IF q = 1 THEN <<0, -1>> ELSE <<1, 0>>

VSub(a, b) == << a[1] - b[1], a[2] - b[2] >>
VScale(a, k) == << a[1] * k, a[2] * k >>
LengthSquared(a) == a[1] * a[1] + a[2] * a[2]

\* Ped::Tvector::fromPolar(direction, radius) for the queue's direction.
FromPolar(q, radius) == VScale(QueueDirection(q), radius)

VARIABLES
    agent, waitingQueue, currentWaypoint, followedAgent, status,
    connAgentMayPass, connQueueEnd, connPositionChanged,
    queuedAgents, queueEnd, position, disabledForces,
    aborted, enqueueCalls, followedSince, leftSince, passGranted

vars == << agent, waitingQueue, currentWaypoint, followedAgent, status,
           connAgentMayPass, connQueueEnd, connPositionChanged,
           queuedAgents, queueEnd, position, disabledForces,
           aborted, enqueueCalls, followedSince, leftSince, passGranted >>

\* The whole state as one record, which the methods below map to a record.
\* Four fields are history, kept for the properties: since the last
\* setWaitingQueue, enqueueCalls counts the planner's calls of enqueueAgent
\* (2 stands for two or more), followedSince holds the agents enqueueAgent
\* has returned, leftSince those of them whose leaving the planner has
\* handled and not followed again, and passGranted tells whether
\* agentMayPass has been handled with the planner's own agent's id.
World ==
    [ agent |-> agent, waitingQueue |-> waitingQueue,
      currentWaypoint |-> currentWaypoint, followedAgent |-> followedAgent,
      status |-> status,
      connAgentMayPass |-> connAgentMayPass, connQueueEnd |-> connQueueEnd,
      connPositionChanged |-> connPositionChanged,
      queuedAgents |-> queuedAgents, queueEnd |-> queueEnd,
      position |-> position, disabledForces |-> disabledForces,
      aborted |-> aborted, enqueueCalls |-> enqueueCalls,
      followedSince |-> followedSince, leftSince |-> leftSince,
      passGranted |-> passGranted ]

\* QObject::connect on a sender/signal/slot that has n connections.
Connect(n) == IF n < 2 THEN n + 1 ELSE n

\* A dereference of a null pointer that the build turns into a crash.
Abort(w) == [w EXCEPT !.aborted = TRUE]

\* ------------------------------------------------- WaitingQueue and Agent
isEmpty(w, q) == w.queuedAgents[q] = << >>

getQueueEndPosition(w, q) == w.queueEnd[q]

\* The agent now immediately ahead, or none when the agent becomes the head.
AgentAhead(w, q) ==
    IF isEmpty(w, q) THEN NoAgent
    ELSE w.queuedAgents[q][Len(w.queuedAgents[q])]

enqueueAgent(w, q, a) ==
    [w EXCEPT !.queuedAgents[q] = Append(@, a)]

\* ------------------------------------------------------------ the planner
addPrivateSpace(w, p) ==
    VSub(p, FromPolar(w.waitingQueue, PrivateSpaceDistance))

\* hasReachedQueueEnd reads agent->getPosition() without a null check.
ReadsNullAgent(w) == w.waitingQueue # NoQueue /\ w.agent = NoAgent

\* hasReachedQueueEnd with < for <=: the radius itself counts as not reached.
hasReachedQueueEnd_exclusive(w, u) ==
    IF w.waitingQueue = NoQueue THEN FALSE
    ELSE IF w.agent = NoAgent THEN u = "true"
    ELSE LengthSquared(VSub(getQueueEndPosition(w, w.waitingQueue),
                            w.position[w.agent]))
            < EndPositionRadius * EndPositionRadius

hasReachedQueueEnd(w, u) ==
    IF w.waitingQueue = NoQueue THEN FALSE
    ELSE IF w.agent = NoAgent THEN u = "true"
    ELSE LengthSquared(VSub(getQueueEndPosition(w, w.waitingQueue),
                            w.position[w.agent]))
            <= EndPositionRadius * EndPositionRadius

\* onFollowedAgentPositionChanged with <= for <: a move of exactly the
\* minimum update distance is dropped too.
onFollowedAgentPositionChanged_inclusive(w, p) ==
    IF w.currentWaypoint = NoWaypoint THEN w
    ELSE IF w.waitingQueue = NoQueue THEN Abort(w)
    ELSE LET followedPosition == addPrivateSpace(w, p)
             diff == VSub(followedPosition, w.currentWaypoint)
         IN  IF LengthSquared(diff) <= MinUpdateDistance * MinUpdateDistance
             THEN w
             ELSE [w EXCEPT !.currentWaypoint = followedPosition]

\* onFollowedAgentPositionChanged with twice the minimum update distance.
onFollowedAgentPositionChanged_doubled(w, p) ==
    IF w.currentWaypoint = NoWaypoint THEN w
    ELSE IF w.waitingQueue = NoQueue THEN Abort(w)
    ELSE LET followedPosition == addPrivateSpace(w, p)
             diff == VSub(followedPosition, w.currentWaypoint)
         IN  IF LengthSquared(diff) < 4 * MinUpdateDistance * MinUpdateDistance
             THEN w
             ELSE [w EXCEPT !.currentWaypoint = followedPosition]

onFollowedAgentPositionChanged(w, p) ==
    IF w.currentWaypoint = NoWaypoint THEN w
    ELSE IF w.waitingQueue = NoQueue THEN Abort(w)
    ELSE LET followedPosition == addPrivateSpace(w, p)
             diff == VSub(followedPosition, w.currentWaypoint)
         IN  IF LengthSquared(diff) < MinUpdateDistance * MinUpdateDistance
             THEN w
             ELSE [w EXCEPT !.currentWaypoint = followedPosition]

onFollowedAgentLeftQueue(w) ==
    IF w.waitingQueue = NoQueue \/ w.currentWaypoint = NoWaypoint
    THEN Abort([w EXCEPT !.connPositionChanged[w.followedAgent] = 0])
    ELSE [w EXCEPT !.connPositionChanged[w.followedAgent] = 0,
                   !.leftSince = @ \cup {w.followedAgent},
                   !.currentWaypoint = QueuePosition(w.waitingQueue)]

DisconnectQueue(w, q) ==
    IF q = NoQueue THEN w
    ELSE [w EXCEPT !.connAgentMayPass[q] = 0, !.connQueueEnd[q] = 0]

\* onAgentMayPassQueue without the two disconnects of its first branch.
onAgentMayPassQueue_staysConnected(w, id) ==
    IF w.agent # NoAgent /\ id = w.agent
    THEN [w EXCEPT !.status = "MayPass", !.passGranted = TRUE]
    ELSE IF w.followedAgent # NoAgent /\ id = w.followedAgent
    THEN onFollowedAgentLeftQueue(w)
    ELSE w

onAgentMayPassQueue(w, id) ==
    IF w.agent # NoAgent /\ id = w.agent
    THEN DisconnectQueue([w EXCEPT !.status = "MayPass",
                                   !.passGranted = TRUE], w.waitingQueue)
    ELSE IF w.followedAgent # NoAgent /\ id = w.followedAgent
    THEN onFollowedAgentLeftQueue(w)
    ELSE w

\* reset without "currentWaypoint = nullptr": the old target survives.
reset_keepsWaypoint(w) ==
    LET w1 == IF w.followedAgent # NoAgent
              THEN [w EXCEPT !.connPositionChanged[w.followedAgent] = 0]
              ELSE w
        w2 == DisconnectQueue(w1, w1.waitingQueue)
    IN  [w2 EXCEPT !.status = "Unknown",
                   !.followedAgent = NoAgent]

reset(w) ==
    LET w1 == IF w.followedAgent # NoAgent
              THEN [w EXCEPT !.connPositionChanged[w.followedAgent] = 0]
              ELSE w
        w2 == DisconnectQueue(w1, w1.waitingQueue)
    IN  [w2 EXCEPT !.status = "Unknown",
                   !.currentWaypoint = NoWaypoint,
                   !.followedAgent = NoAgent]

\* setWaitingQueue that sets Approaching without the test for a null queue.
setWaitingQueue_alwaysApproaching(w, queueIn) ==
    LET w1 == [reset(w) EXCEPT !.waitingQueue = queueIn,
                               !.enqueueCalls = 0,
                               !.followedSince = {},
                               !.leftSince = {},
                               !.passGranted = FALSE]
    IN  IF queueIn # NoQueue
        THEN [w1 EXCEPT !.status = "Approaching",
                        !.connAgentMayPass[queueIn] = Connect(@),
                        !.connQueueEnd[queueIn] = Connect(@)]
        ELSE [w1 EXCEPT !.status = "Approaching"]

setWaitingQueue(w, queueIn) ==
    LET w1 == [reset(w) EXCEPT !.waitingQueue = queueIn,
                               !.enqueueCalls = 0,
                               !.followedSince = {},
                               !.leftSince = {},
                               !.passGranted = FALSE]
    IN  IF queueIn # NoQueue
        THEN [w1 EXCEPT !.status = "Approaching",
                        !.connAgentMayPass[queueIn] = Connect(@),
                        !.connQueueEnd[queueIn] = Connect(@)]
        ELSE w1

\* setDestination without the sanity check on the cast's result.
setDestination_unchecked(w, waypointIn) ==
    setWaitingQueue(w, AsWaitingQueue(waypointIn))

setDestination(w, waypointIn) ==
    LET queue == AsWaitingQueue(waypointIn)
    IN  IF queue = NoQueue THEN w
        ELSE setWaitingQueue(w, queue)

activateApproachingMode(w) ==
    IF w.agent = NoAgent \/ w.waitingQueue = NoQueue THEN Abort(w)
    ELSE [w EXCEPT !.status = "Approaching",
                   !.currentWaypoint =
                       getQueueEndPosition(w, w.waitingQueue)]

\* activateQueueingMode without the four disableForce calls.
activateQueueingMode_keepsForces(w) ==
    IF w.agent = NoAgent \/ w.waitingQueue = NoQueue THEN Abort(w)
    ELSE LET q == w.waitingQueue
             ahead == AgentAhead(w, q)
             w1 == [enqueueAgent(w, q, w.agent) EXCEPT
                        !.status = "Queued",
                        !.followedAgent = ahead,
                        !.enqueueCalls = IF @ < 2 THEN @ + 1 ELSE @]
         IN  IF ahead # NoAgent
             THEN [w1 EXCEPT
                     !.connPositionChanged[ahead] = Connect(@),
                     !.followedSince = @ \cup {ahead},
                     !.leftSince = @ \ {ahead},
                     !.currentWaypoint = addPrivateSpace(w, w.position[ahead])]
             ELSE [w1 EXCEPT !.currentWaypoint = QueuePosition(q)]

activateQueueingMode(w) ==
    IF w.agent = NoAgent \/ w.waitingQueue = NoQueue THEN Abort(w)
    ELSE LET q == w.waitingQueue
             ahead == AgentAhead(w, q)
             w1 == [enqueueAgent(w, q, w.agent) EXCEPT
                        !.status = "Queued",
                        !.followedAgent = ahead,
                        !.enqueueCalls = IF @ < 2 THEN @ + 1 ELSE @,
                        !.disabledForces = @ \cup ProblematicForces]
         IN  IF ahead # NoAgent
             THEN [w1 EXCEPT
                     !.connPositionChanged[ahead] = Connect(@),
                     !.followedSince = @ \cup {ahead},
                     !.leftSince = @ \ {ahead},
                     !.currentWaypoint = addPrivateSpace(w, w.position[ahead])]
             ELSE [w1 EXCEPT !.currentWaypoint = QueuePosition(q)]

\* onQueueEndPositionChanged that applies the offset whatever the queue holds.
onQueueEndPositionChanged_alwaysOffset(w, p, u) ==
    IF w.status # "Approaching" THEN w
    ELSE IF ReadsNullAgent(w) /\ u = "abort" THEN Abort(w)
    ELSE IF hasReachedQueueEnd(w, u) THEN activateQueueingMode(w)
    ELSE IF w.currentWaypoint = NoWaypoint THEN w
    ELSE [w EXCEPT !.currentWaypoint = addPrivateSpace(w, p)]

\* onQueueEndPositionChanged without the test of status.
onQueueEndPositionChanged_anyStatus(w, p, u) ==
    IF ReadsNullAgent(w) /\ u = "abort" THEN Abort(w)
    ELSE IF hasReachedQueueEnd(w, u) THEN activateQueueingMode(w)
    ELSE IF w.currentWaypoint = NoWaypoint THEN w
    ELSE [w EXCEPT !.currentWaypoint =
                      IF ~isEmpty(w, w.waitingQueue)
                      THEN addPrivateSpace(w, p) ELSE p]

onQueueEndPositionChanged(w, p, u) ==
    IF w.status # "Approaching" THEN w
    ELSE IF ReadsNullAgent(w) /\ u = "abort" THEN Abort(w)
    ELSE IF hasReachedQueueEnd(w, u) THEN activateQueueingMode(w)
    ELSE IF w.currentWaypoint = NoWaypoint THEN w
    ELSE [w EXCEPT !.currentWaypoint =
                      IF ~isEmpty(w, w.waitingQueue)
                      THEN addPrivateSpace(w, p) ELSE p]

\* hasCompletedWaypoint without the test of status before hasReachedQueueEnd.
hasCompletedWaypoint_anyStatus(w, u) ==
    IF w.currentWaypoint = NoWaypoint THEN TRUE
    ELSE IF hasReachedQueueEnd(w, u) THEN TRUE
    ELSE w.status = "MayPass"

hasCompletedWaypoint(w, u) ==
    IF w.currentWaypoint = NoWaypoint THEN TRUE
    ELSE IF w.status = "Approaching" /\ hasReachedQueueEnd(w, u) THEN TRUE
    ELSE w.status = "MayPass"

\* Whether hasCompletedWaypoint gets as far as the read through agent.
CompletedReadsNullAgent(w) ==
    /\ w.currentWaypoint # NoWaypoint
    /\ w.status = "Approaching"
    /\ ReadsNullAgent(w)

\* The state a call of hasCompletedWaypoint() leaves: the method is const,
\* and only its read through a null agent can end the run.
HasCompletedWaypointCall(w, u) ==
    IF CompletedReadsNullAgent(w) /\ u = "abort" THEN Abort(w) ELSE w

\* hasCompletedDestination that takes being enqueued for having completed.
hasCompletedDestination_whenQueued(w) ==
    IF w.waitingQueue = NoQueue THEN TRUE
    ELSE w.status \in {"Queued", "MayPass"}

hasCompletedDestination(w) ==
    IF w.waitingQueue = NoQueue THEN TRUE
    ELSE w.status = "MayPass"

getNextWaypoint(w, u) ==
    IF w.agent = NoAgent THEN [w EXCEPT !.currentWaypoint = NoWaypoint]
    ELSE IF w.waitingQueue = NoQueue
    THEN [w EXCEPT !.currentWaypoint = NoWaypoint]
    ELSE IF hasReachedQueueEnd(w, u) THEN activateQueueingMode(w)
    ELSE activateApproachingMode(w)

getCurrentWaypoint(w, u) ==
    IF CompletedReadsNullAgent(w) /\ u = "abort" THEN Abort(w)
    ELSE IF hasCompletedWaypoint(w, u) THEN getNextWaypoint(w, u)
    ELSE w

\* ------------------------------------------------------ signal delivery
\* A signal runs the connected slot once per connection.
RECURSIVE EmitAgentMayPass(_, _, _)
EmitAgentMayPass(w, id, n) ==
    IF n = 0 \/ w.aborted THEN w
    ELSE EmitAgentMayPass(onAgentMayPassQueue(w, id), id, n - 1)

RECURSIVE EmitQueueEndPositionChanged(_, _, _, _)
EmitQueueEndPositionChanged(w, p, u, n) ==
    IF n = 0 \/ w.aborted THEN w
    ELSE EmitQueueEndPositionChanged(onQueueEndPositionChanged(w, p, u),
                                     p, u, n - 1)

RECURSIVE EmitPositionChanged(_, _, _)
EmitPositionChanged(w, p, n) ==
    IF n = 0 \/ w.aborted THEN w
    ELSE EmitPositionChanged(onFollowedAgentPositionChanged(w, p), p, n - 1)

\* ---------------------------------------------------------------- steps
WithinBounds(w) ==
    \A q \in Queues : Len(w.queuedAgents[q]) <= MaxQueueLen

Commit(w) ==
    /\ WithinBounds(w)
    /\ agent' = w.agent
    /\ waitingQueue' = w.waitingQueue
    /\ currentWaypoint' = w.currentWaypoint
    /\ followedAgent' = w.followedAgent
    /\ status' = w.status
    /\ connAgentMayPass' = w.connAgentMayPass
    /\ connQueueEnd' = w.connQueueEnd
    /\ connPositionChanged' = w.connPositionChanged
    /\ queuedAgents' = w.queuedAgents
    /\ queueEnd' = w.queueEnd
    /\ position' = w.position
    /\ disabledForces' = w.disabledForces
    /\ aborted' = w.aborted
    /\ enqueueCalls' = w.enqueueCalls
    /\ followedSince' = w.followedSince
    /\ leftSince' = w.leftSince
    /\ passGranted' = w.passGranted

\* The outcomes to choose from where the operation may read through agent.
Outcomes == IF ReadsNullAgent(World) THEN UndefinedReads ELSE {"true"}

Init ==
    /\ agent = NoAgent
    /\ waitingQueue = NoQueue
    /\ currentWaypoint = NoWaypoint
    /\ followedAgent = NoAgent
    /\ status = "Unknown"
    /\ connAgentMayPass = [q \in Queues |-> 0]
    /\ connQueueEnd = [q \in Queues |-> 0]
    /\ connPositionChanged = [a \in Agents |-> 0]
    /\ queuedAgents = [q \in Queues |-> << >>]
    /\ queueEnd \in { f \in [Queues -> EndPositions] :
                        \A q \in Queues : f[q] \in EndPositionsOf(q) }
    /\ position \in { f \in [Agents -> OwnPositions \cup OtherPositions] :
                        \A a \in Agents : f[a] \in PositionOf(a) }
    /\ disabledForces = {}
    /\ aborted = FALSE
    /\ enqueueCalls = 0
    /\ followedSince = {}
    /\ leftSince = {}
    /\ passGranted = FALSE

SetAgent ==
    /\ ~aborted
    /\ \E agentIn \in OwnAgents : Commit([World EXCEPT !.agent = agentIn])

SetDestination ==
    /\ ~aborted
    /\ \E waypointIn \in Waypoints : Commit(setDestination(World, waypointIn))

SetWaitingQueue ==
    /\ ~aborted
    /\ \E queueIn \in Queues \cup {NoQueue} :
          Commit(setWaitingQueue(World, queueIn))

GetCurrentWaypoint ==
    /\ ~aborted
    /\ \E u \in Outcomes : Commit(getCurrentWaypoint(World, u))

HasCompletedWaypoint ==
    /\ ~aborted
    /\ \E u \in Outcomes : Commit(HasCompletedWaypointCall(World, u))

HasCompletedDestination ==
    /\ ~aborted
    /\ Commit(World)

\* Another agent joins queue q, which it is not in.
OtherAgentEnqueues(q, a) ==
    /\ ~aborted
    /\ \A r \in Queues :
          \A i \in 1 .. Len(queuedAgents[r]) : queuedAgents[r][i] # a
    /\ Commit(enqueueAgent(World, q, a))

\* Queue q lets its first agent pass: agentMayPass(id), then the agent
\* leaves the queue.
QueueLetsPass(q) ==
    /\ ~aborted
    /\ queuedAgents[q] # << >>
    /\ LET id == Head(queuedAgents[q])
           w1 == EmitAgentMayPass(World, id, connAgentMayPass[q])
       IN  Commit([w1 EXCEPT !.queuedAgents[q] = Tail(@)])

\* Queue q announces its end, at p now: queueEndPositionChanged(x, y).
QueueEndMoves(q, p) ==
    /\ ~aborted
    /\ p \in EndPositionsOf(q)
    /\ \E u \in Outcomes :
          Commit(EmitQueueEndPositionChanged(
                    [World EXCEPT !.queueEnd[q] = p], p, u, connQueueEnd[q]))

\* Agent a moves to p: positionChanged(x, y).
AgentMoves(a, p) ==
    /\ ~aborted
    /\ p # position[a]
    /\ Commit(EmitPositionChanged(
                [World EXCEPT !.position[a] = p], p, connPositionChanged[a]))

Next ==
    \/ SetAgent
    \/ SetDestination
    \/ SetWaitingQueue
    \/ GetCurrentWaypoint
    \/ HasCompletedWaypoint
    \/ HasCompletedDestination
    \/ \E q \in Queues : \E a \in OtherAgents : OtherAgentEnqueues(q, a)
    \/ \E q \in Queues : QueueLetsPass(q)
    \/ \E q \in Queues : \E p \in EndPositions : QueueEndMoves(q, p)
    \/ \E a \in Agents : \E p \in PositionOf(a) : AgentMoves(a, p)

Spec == Init /\ [][Next]_vars

TypeOK ==
    /\ agent \in OwnAgents \cup {NoAgent}
    /\ waitingQueue \in Queues \cup {NoQueue}
    /\ status \in Statuses
    /\ followedAgent \in Agents \cup {NoAgent}
    /\ aborted \in BOOLEAN

\* ------------------------------------------------------------ properties
\* A step of assignQueue: setWaitingQueue, directly or through setDestination.
AssignStep == SetWaitingQueue \/ SetDestination

\* The agent is bound and within the arrival radius (2.0) of the end of the
\* assigned queue.
WithinArrivalRadius ==
    /\ agent # NoAgent
    /\ waitingQueue # NoQueue
    /\ LengthSquared(VSub(queueEnd[waitingQueue], position[agent])) <= 400

\* C1, as claimed: in every reachable state, phase Approaching or Queued
\* implies a non-null target (also right after assignQueue(q), q non-null).
C1_TargetWhenApproachingOrQueued ==
    status \in {"Approaching", "Queued"} => currentWaypoint # NoWaypoint

\* C1, amended: phase Queued implies a non-null target.  In phase
\* Approaching the target is created lazily: right after assignQueue(q), q
\* non-null, phase is Approaching and the target is null; a currentTarget()
\* call with an agent bound and a queue assigned leaves a non-null target;
\* and within phase Approaching only a currentTarget() call turns a null
\* target into a non-null one.
C1_TargetCreatedLazily ==
    /\ [](status = "Queued" => currentWaypoint # NoWaypoint)
    /\ [][ /\ ( /\ waitingQueue' # NoQueue
                /\ enqueueCalls' = 0
                /\ \E q \in Queues : Commit(setWaitingQueue(World, q)) )
                => (status' = "Approaching" /\ currentWaypoint' = NoWaypoint)
           /\ ( /\ currentWaypoint' = NoWaypoint
                /\ agent # NoAgent
                /\ waitingQueue # NoQueue ) => ~GetCurrentWaypoint
           /\ ( /\ status' = "Approaching"
                /\ currentWaypoint = NoWaypoint
                /\ currentWaypoint' # NoWaypoint ) => GetCurrentWaypoint
         ]_vars

\* C1 witness: an agent is bound, a queue has just been assigned, and the
\* planner approaches it with no target yet.
C1_Witness ==
    /\ agent # NoAgent
    /\ waitingQueue # NoQueue
    /\ status = "Approaching"
    /\ currentWaypoint = NoWaypoint

\* C2, as claimed: once own-id pass-permission has set phase to MayPass,
\* phase stays MayPass and hasCompletedAssignment() stays true whatever
\* queries and events follow, until the next assignQueue.
C2_MayPassIsTerminal ==
    [][ (status = "MayPass" /\ ~AssignStep)
            => (status' = "MayPass" /\ hasCompletedDestination(World)') ]_vars

\* C3, as claimed: after assignQueue, no event of another queue than the
\* assigned one, and no position-changed event of an agent not followed under
\* the present assignment, changes phase, followedAgent or target.
C3_NoStaleEvent ==
    [][ /\ (\E q \in Queues \ {waitingQueue} :
                \/ QueueLetsPass(q)
                \/ \E p \in EndPositions : QueueEndMoves(q, p))
            => UNCHANGED << status, followedAgent, currentWaypoint >>
        /\ (\E a \in Agents \ followedSince :
                \E p \in PositionOf(a) : AgentMoves(a, p))
            => UNCHANGED << status, followedAgent, currentWaypoint >>
      ]_vars

\* The planner's live connections, as the sets of their senders.
QueuesHeard == { q \in Queues : connAgentMayPass[q] > 0 \/ connQueueEnd[q] > 0 }
AgentsHeard == { a \in Agents : connPositionChanged[a] > 0 }
HearsQueue(q) == connAgentMayPass[q] = 1 /\ connQueueEnd[q] = 1

\* C4, as claimed: the live subscriptions are exactly the assigned queue's
\* two signals when Approaching or Queued without a followed agent, those
\* and the followed agent's positionChanged when Queued with one, and none
\* when Unset or MayPass.
C4_OneSubscriptionSet ==
    /\ (status = "Approaching" \/ (status = "Queued" /\ followedAgent = NoAgent))
        => /\ waitingQueue # NoQueue
           /\ QueuesHeard = {waitingQueue}
           /\ HearsQueue(waitingQueue)
           /\ AgentsHeard = {}
    /\ (status = "Queued" /\ followedAgent # NoAgent)
        => /\ waitingQueue # NoQueue
           /\ QueuesHeard = {waitingQueue}
           /\ HearsQueue(waitingQueue)
           /\ AgentsHeard = {followedAgent}
    /\ status \in {"Unknown", "MayPass"}
        => (QueuesHeard = {} /\ AgentsHeard = {})

\* agentMayPass(id) of queue q reaches the planner's slot.
PassDelivered(q) == connAgentMayPass[q] > 0 /\ QueueLetsPass(q)

\* A queue emits one of its two signals.
QueueEventStep ==
    \E q \in Queues :
        \/ QueueLetsPass(q)
        \/ \E p \in EndPositions : QueueEndMoves(q, p)

\* C5: own-id pass-permission makes phase MayPass and hasCompletedAssignment()
\* true, and from then on (under that assignment) no queue event changes the
\* target's position.
C5_OwnPassCompletes ==
    [][ /\ (\E q \in Queues :
                /\ agent # NoAgent
                /\ queuedAgents[q] # << >>
                /\ Head(queuedAgents[q]) = agent
                /\ PassDelivered(q))
            => (status' = "MayPass" /\ hasCompletedDestination(World)')
        /\ (passGranted /\ currentWaypoint' # currentWaypoint)
            => ~QueueEventStep
      ]_vars

\* C5 witness: own-id pass-permission has been handled; the planner is in
\* MayPass with its target still in place.
C5_Witness ==
    /\ passGranted
    /\ status = "MayPass"
    /\ currentWaypoint # NoWaypoint

\* C8, as claimed: pass-permission with followedAgent's id, delivered while
\* Queued, moves the target to the queue's anchor, and position-changed
\* events of that agent emitted afterwards leave the target unchanged.
C8_FollowedAgentLeft ==
    [][ /\ (\E q \in Queues :
                /\ status = "Queued"
                /\ followedAgent # NoAgent
                /\ queuedAgents[q] # << >>
                /\ Head(queuedAgents[q]) = followedAgent
                /\ PassDelivered(q))
            => /\ waitingQueue # NoQueue
               /\ currentWaypoint' = QueuePosition(waitingQueue)
               /\ followedAgent' \in leftSince'
        /\ (\E a \in leftSince : \E p \in PositionOf(a) : AgentMoves(a, p))
            => currentWaypoint' = currentWaypoint
      ]_vars

\* C6: with an agent bound, in phase Approaching and within 2.0 of the queue's
\* end, currentTarget() makes the phase Queued and enqueues the agent once; if
\* nobody is ahead the target is the queue's anchor; and a currentTarget()
\* call in phase Queued enqueues nothing and leaves the target as it is.
C6_ArrivalEnqueuesOnce ==
    /\ [][ (status = "Approaching" /\ WithinArrivalRadius /\ GetCurrentWaypoint)
            => /\ status' = "Queued"
               /\ queuedAgents' =
                    [queuedAgents EXCEPT ![waitingQueue] = Append(@, agent)]
               /\ (queuedAgents[waitingQueue] = << >>
                     => currentWaypoint' = QueuePosition(waitingQueue))
         ]_vars
    /\ []((status = "Queued" /\ ~aborted)
            => \A u \in Outcomes : getCurrentWaypoint(World, u) = World)

\* C6 witness: the planner has enqueued its agent, once, as the queue's head
\* and targets the anchor.
C6_Witness ==
    /\ status = "Queued"
    /\ enqueueCalls = 1
    /\ followedAgent = NoAgent
    /\ queuedAgents[waitingQueue] = << agent >>
    /\ currentWaypoint = QueuePosition(waitingQueue)

\* When hasCompletedCurrentTarget() is claimed to return true.
CompletedAsClaimed ==
    \/ currentWaypoint = NoWaypoint
    \/ (status = "Approaching" /\ WithinArrivalRadius)
    \/ status = "MayPass"

PersonalSpace(p) == VSub(p, VScale(QueueDirection(waitingQueue), 7))

\* activateQueueingMode runs in this step: the planner's agent joins the
\* assigned queue.
ActivatesQueueing ==
    /\ waitingQueue # NoQueue
    /\ agent # NoAgent
    /\ queuedAgents' = [queuedAgents EXCEPT ![waitingQueue] = Append(@, agent)]
    /\ (GetCurrentWaypoint
          \/ \E p \in EndPositions : QueueEndMoves(waitingQueue, p))

\* C9: when activateQueueing() obtains a followed agent at P, the target is
\* P minus the personal-space offset; a position-changed event of the followed
\* agent with |P' - P| < 0.4 then leaves the target unchanged, and one with
\* |P' - P| >= 0.4 sets it to P' minus the offset.
C9_FollowWithHysteresis ==
    [][ /\ (ActivatesQueueing /\ queuedAgents[waitingQueue] # << >>)
            => /\ followedAgent' = AgentAhead(World, waitingQueue)
               /\ currentWaypoint' = PersonalSpace(position[followedAgent'])
        /\ \A a \in Agents : \A p \in PositionOf(a) :
              ( /\ a = followedAgent
                /\ a \notin leftSince
                /\ waitingQueue # NoQueue
                /\ currentWaypoint = PersonalSpace(position[a])
                /\ AgentMoves(a, p) )
              => IF LengthSquared(VSub(p, position[a])) < 16
                 THEN currentWaypoint' = currentWaypoint
                 ELSE currentWaypoint' = PersonalSpace(p)
      ]_vars

\* C9 witness: the planner was enqueued behind an agent that has since moved
\* by less than 0.4, and the target is still where enqueueing put it.
C9_Witness ==
    /\ status = "Queued"
    /\ followedAgent \in OtherAgents
    /\ followedAgent \notin leftSince
    /\ position[followedAgent] = <<0, 53>>
    /\ currentWaypoint = PersonalSpace(<<0, 50>>)
    /\ enqueueCalls = 1

\* C10, as claimed: followedAgent is non-null only in phase Queued.
C10_FollowedOnlyWhenQueued ==
    followedAgent # NoAgent => status = "Queued"

\* C11, as claimed: while no agent is bound, every query and every handled
\* event leaves phase, queue, followedAgent and target unchanged, and the
\* absent agent is never dereferenced: no abort state is reachable.
C11_NoAgentIsInert ==
    /\ [](~aborted)
    /\ [][ (agent = NoAgent /\ ~AssignStep /\ ~SetAgent)
            => UNCHANGED << status, waitingQueue, followedAgent,
                            currentWaypoint >> ]_vars

\* C12: setDestination with a waypoint that is no waiting queue, or with
\* null, changes nothing: queue, phase, followedAgent, target and the
\* connections are after the call what they were before.
C12_NonQueueDestinationRejected ==
    \A waypointIn \in PlainWaypoints \cup {NoQueue} :
        LET after == setDestination(World, waypointIn)
        IN  /\ after.waitingQueue = waitingQueue
            /\ after.status = status
            /\ after.followedAgent = followedAgent
            /\ after.currentWaypoint = currentWaypoint
            /\ after.connAgentMayPass = connAgentMayPass
            /\ after.connQueueEnd = connQueueEnd
            /\ after.connPositionChanged = connPositionChanged

\* C12 witness: the planner queues behind an agent it listens to, with all
\* three connections live, and a plain waypoint offered as destination
\* leaves the state as it is.
C12_Witness ==
    /\ status = "Queued"
    /\ followedAgent \in OtherAgents
    /\ connPositionChanged[followedAgent] = 1
    /\ HearsQueue(waitingQueue)
    /\ \A waypointIn \in PlainWaypoints : setDestination(World, waypointIn) = World

\* C13, as claimed: when currentTarget() creates the approaching target
\* (agent bound, queue assigned, agent farther than 2.0 from the queue's
\* end), the target is the end position minus the personal-space offset if
\* the queue is non-empty, and exactly the end position if it is empty.
C13_ApproachTargetKeepsDistance ==
    [][ ( /\ agent # NoAgent
          /\ waitingQueue # NoQueue
          /\ currentWaypoint = NoWaypoint
          /\ ~WithinArrivalRadius
          /\ GetCurrentWaypoint )
        => currentWaypoint' =
              IF queuedAgents[waitingQueue] # << >>
              THEN PersonalSpace(queueEnd[waitingQueue])
              ELSE queueEnd[waitingQueue]
      ]_vars

\* C14: hasCompletedAssignment() is true exactly when no queue is assigned or
\* phase is MayPass; and with a queue assigned it is not true before
\* pass-permission with the planner's own agent's id has been handled under
\* that assignment.
C14_CompletedOnlyAfterOwnPass ==
    /\ hasCompletedDestination(World)
          <=> (waitingQueue = NoQueue \/ status = "MayPass")
    /\ (waitingQueue # NoQueue /\ hasCompletedDestination(World))
          => passGranted

\* C14 witness: a queue is assigned, its pass-permission for the planner's
\* agent has been handled, and hasCompletedAssignment() is true.
C14_Witness ==
    /\ waitingQueue # NoQueue
    /\ agent # NoAgent
    /\ passGranted
    /\ hasCompletedDestination(World)

\* The end-position-changed event of the assigned queue, with the end at p
\* now, reaches the planner's slot while the planner approaches.
EndEventWhileApproaching(p) ==
    /\ agent # NoAgent
    /\ waitingQueue # NoQueue
    /\ status = "Approaching"
    /\ connQueueEnd[waitingQueue] > 0
    /\ QueueEndMoves(waitingQueue, p)

\* C15: an end-position-changed event handled while Approaching, with the
\* agent farther than 2.0 from the queue's end, sets the existing target to
\* the event's position, minus the personal-space offset only if the queue is
\* non-empty; phase stays, nothing is enqueued, and without a target nothing
\* happens.  With the agent within 2.0 of the end, the handler activates
\* queueing: phase becomes Queued and the agent is enqueued.
C15_EndEventWhileApproaching ==
    [][ \A p \in EndPositions :
          EndEventWhileApproaching(p) =>
            IF LengthSquared(VSub(p, position[agent])) > 400
            THEN /\ status' = "Approaching"
                 /\ queuedAgents' = queuedAgents
                 /\ enqueueCalls' = enqueueCalls
                 /\ followedAgent' = followedAgent
                 /\ currentWaypoint' =
                      IF currentWaypoint = NoWaypoint THEN NoWaypoint
                      ELSE IF queuedAgents[waitingQueue] # << >>
                           THEN PersonalSpace(p)
                           ELSE p
            ELSE /\ status' = "Queued"
                 /\ queuedAgents' =
                      [queuedAgents EXCEPT ![waitingQueue] = Append(@, agent)]
      ]_vars

\* C15 witness: the planner approaches a non-empty queue and its target is
\* the queue's end minus the personal-space offset, which only the handler
\* of the end-position-changed event produces.
C15_Witness ==
    /\ status = "Approaching"
    /\ waitingQueue # NoQueue
    /\ queuedAgents[waitingQueue] # << >>
    /\ currentWaypoint = PersonalSpace(queueEnd[waitingQueue])

\* C16: an end-position-changed event handled while phase is not Approaching
\* leaves phase, queue, followedAgent, the target and the connections
\* unchanged, and enqueues nothing.
C16_EndEventIgnoredElsewhere ==
    /\ [](status # "Approaching"
            => \A p \in EndPositions : \A u \in UndefinedReads :
                  onQueueEndPositionChanged(World, p, u) = World)
    /\ [][ ( /\ status # "Approaching"
             /\ \E q \in Queues : \E p \in EndPositions :
                   connQueueEnd[q] > 0 /\ QueueEndMoves(q, p) )
           => UNCHANGED << status, waitingQueue, followedAgent,
                           currentWaypoint, connAgentMayPass, connQueueEnd,
                           connPositionChanged, queuedAgents, enqueueCalls >>
         ]_vars

\* C16 witness: the planner was enqueued once, within 2.0 of the end as it was
\* then; the end has moved since and the planner is still Queued.
C16_Witness ==
    /\ status = "Queued"
    /\ enqueueCalls = 1
    /\ ~passGranted
    /\ connQueueEnd[waitingQueue] = 1
    /\ LengthSquared(VSub(queueEnd[waitingQueue], position[agent])) > 400

\* C17: every activateQueueing() disables the agent's Social, Random,
\* GroupCoherence and GroupGaze forces, so that they are disabled whenever
\* phase is Queued, and no operation of the planner enables a force again.
C17_ForcesDisabledWhileQueued ==
    /\ [](status = "Queued" => ProblematicForces \subseteq disabledForces)
    /\ [][ /\ ActivatesQueueing => ProblematicForces \subseteq disabledForces'
           /\ disabledForces \subseteq disabledForces'
         ]_vars

\* C17 witness: the agent has queued, a queue was assigned anew since, and
\* the four forces are still disabled.
C17_Witness ==
    /\ status = "Approaching"
    /\ enqueueCalls = 0
    /\ disabledForces = ProblematicForces

\* C18, as claimed: between two assignQueue calls the planner calls the
\* queue's enqueue for its agent at most once.
C18_EnqueueAtMostOnce ==
    enqueueCalls <= 1

\* C19: phase is Unknown exactly when no queue is assigned, and a target
\* exists only with an agent bound and a queue assigned.
C19_PhaseTellsAssignment ==
    /\ status = "Unknown" <=> waitingQueue = NoQueue
    /\ currentWaypoint # NoWaypoint
          => (agent # NoAgent /\ waitingQueue # NoQueue)

\* C19 witness: the agent has queued and the queue was unassigned since,
\* which left no phase and no target.
C19_Witness ==
    /\ agent # NoAgent
    /\ disabledForces # {}
    /\ waitingQueue = NoQueue
    /\ status = "Unknown"
    /\ currentWaypoint = NoWaypoint

\* C20: after a position-changed event handled while a target exists, the
\* target is less than 0.4 from the event's position minus the personal-space
\* offset, whatever events came before.
C20_TargetLagsLessThanThreshold ==
    [][ \A a \in Agents : \A p \in PositionOf(a) :
          ( /\ connPositionChanged[a] > 0
            /\ currentWaypoint # NoWaypoint
            /\ waitingQueue # NoQueue
            /\ AgentMoves(a, p) )
          => LengthSquared(VSub(currentWaypoint', PersonalSpace(p))) < 16
      ]_vars

\* C20 witness: the followed agent has moved back by 0.3 since the planner
\* was enqueued behind it, and the target has stayed.
C20_Witness ==
    /\ status = "Queued"
    /\ followedAgent \in OtherAgents
    /\ connPositionChanged[followedAgent] = 1
    /\ position[followedAgent] = <<0, 50>>
    /\ currentWaypoint = PersonalSpace(<<0, 53>>)
====
